---- MODULE Spec2Model ----
\* scripts/update_taipei_evaluations.py as a state machine: one invocation of
\* main() is Invoke (load data.json, staleness gate, roster check), then one
\* Request/Response pair per page of fetch_all_records, then WriteSnapshot
\* (the merge loop, the meta block, the compare-and-write).
\*
\* Text is modelled as a sequence of one-character strings, so that strip(),
\* int() and the two regular expressions are computed and not assumed.
\* Tokens standing for non-ASCII characters: "Y" is the year suffix of
\* YEAR_COL_RE, "F" is the full-width hyphen of LEGACY_EVAL_RE; the grades
\* are written "A", "B", "C".
\*
\* Not modelled: the geocode table (load_csv(XY_CSV), normalize_lat_lng) and
\* the pass-through roster columns district/address/phone/capacity. They are
\* copied into each center unchanged and no property below reads them.
EXTENDS Integers, Sequences, FiniteSets, TLC

\* ------------------------------------------------------------------ sizes
\* Clock ticks per second: the clock is finer than the timestamps, which
\* now_taipei_iso() truncates to whole seconds.
SubTicks == 2
\* Page size of the model's server; stands for DEFAULT_LIMIT (1000) scaled to
\* the model's record counts.
PageLimit == 2
\* Offsets at or beyond OffsetCapPages * PageLimit are tracked as that value:
\* every data set of the model is shorter, so all such pages are empty.
OffsetCapPages == 3
\* Invocations of main() per behaviour.
MaxRuns == 2
\* Invocations per behaviour of the staleness-gate specification.
MaxGateRuns == 3
\* Rows of the long roster (more unmatched rows than the meta list keeps).
LongRosterLen == 51

UPDATE_INTERVAL_DAYS == 10
\* the literal of unmatched[:50]
UNMATCHED_LIST_CAP == 50
\* the literal of timezone(timedelta(hours=8))
TAIPEI_UTC_OFFSET_HOURS == 8

SecondsPerHour == 60 * 60
SecondsPerDay == 24 * SecondsPerHour

Min(a, b) == IF a < b THEN a ELSE b

\* ------------------------------------------------------------------ text
Digits == {"0", "1", "2", "3", "4", "5", "6", "7", "8", "9"}

DigitVal(c) ==
  CASE c = "0" -> 0 [] c = "1" -> 1 [] c = "2" -> 2 [] c = "3" -> 3
    [] c = "4" -> 4 [] c = "5" -> 5 [] c = "6" -> 6 [] c = "7" -> 7
    [] c = "8" -> 8 [] c = "9" -> 9

DigitChar(d) == <<"0", "1", "2", "3", "4", "5", "6", "7", "8", "9">>[d + 1]

\* Code point order of the model's alphabet (sorted() compares str by code point).
CodePoint(c) ==
  CASE c = " " -> 32 [] c = "+" -> 43 [] c = "-" -> 45
    [] c \in Digits -> 48 + DigitVal(c)
    [] c = "A" -> 65 [] c = "B" -> 66 [] c = "C" -> 67
    [] c = "a" -> 97 [] c = "b" -> 98 [] c = "x" -> 120
    [] c = "Y" -> 24180 [] c = "F" -> 65293
    [] OTHER -> 0

IsSpace(c) == c = " "

RECURSIVE LStrip(_)
LStrip(s) == IF s # <<>> /\ IsSpace(Head(s)) THEN LStrip(Tail(s)) ELSE s

RECURSIVE RStrip(_)
RStrip(s) ==
  IF s # <<>> /\ IsSpace(s[Len(s)]) THEN RStrip(SubSeq(s, 1, Len(s) - 1)) ELSE s

\* str.strip()
Strip(s) == RStrip(LStrip(s))

AllDigits(s) == \A i \in 1..Len(s) : s[i] \in Digits

RECURSIVE DecVal(_)
DecVal(s) ==
  IF s = <<>> THEN 0
  ELSE 10 * DecVal(SubSeq(s, 1, Len(s) - 1)) + DigitVal(s[Len(s)])

\* Optional[int]
None == [ok |-> FALSE, v |-> 0]
Some(n) == [ok |-> TRUE, v |-> n]

\* safe_int: int(str(x).strip()), None when int() raises. A missing field
\* (x is None, str(x) = "None") is the empty text here: both give None.
safe_int(x) ==
  LET s == Strip(x)
      signed == s # <<>> /\ Head(s) \in {"+", "-"}
      body == IF signed THEN Tail(s) ELSE s
  IN  IF body # <<>> /\ AllDigits(body)
      THEN Some(IF signed /\ Head(s) = "-" THEN 0 - DecVal(body) ELSE DecVal(body))
      ELSE None

RECURSIVE NatToStr(_)
NatToStr(n) ==
  IF n < 10 THEN <<DigitChar(n)>>
  ELSE NatToStr(n \div 10) \o <<DigitChar(n % 10)>>

\* str() of a JSON integer
IntToStr(n) == IF n < 0 THEN <<"-">> \o NatToStr(0 - n) ELSE NatToStr(n)

\* a < b for str
RECURSIVE StrLess(_, _)
StrLess(a, b) ==
  IF b = <<>> THEN FALSE
  ELSE IF a = <<>> THEN TRUE
  ELSE IF Head(a) = Head(b) THEN StrLess(Tail(a), Tail(b))
  ELSE CodePoint(Head(a)) < CodePoint(Head(b))

\* ------------------------------------------------------------------ dict
\* A Python dict is the sequence of its <<key, value>> items in insertion order.
DictHas(d, k) == \E i \in 1..Len(d) : d[i][1] = k

DictGet(d, k) == d[CHOOSE i \in 1..Len(d) : d[i][1] = k][2]

\* d[k] = v
DictSet(d, k, v) ==
  IF DictHas(d, k)
  THEN [i \in 1..Len(d) |-> IF d[i][1] = k THEN <<k, v>> ELSE d[i]]
  ELSE Append(d, <<k, v>>)

\* d.update(e)
RECURSIVE DictUpdate(_, _)
DictUpdate(d, e) ==
  IF e = <<>> THEN d
  ELSE DictUpdate(DictSet(d, Head(e)[1], Head(e)[2]), Tail(e))

RECURSIVE InsertByKey(_, _)
InsertByKey(sorted, kv) ==
  IF sorted = <<>> THEN <<kv>>
  ELSE IF StrLess(kv[1], Head(sorted)[1]) THEN <<kv>> \o sorted
  ELSE <<Head(sorted)>> \o InsertByKey(Tail(sorted), kv)

\* dict(sorted(d.items(), key=lambda kv: kv[0])); the keys of a dict are distinct
RECURSIVE SortedByKey(_)
SortedByKey(d) ==
  IF d = <<>> THEN <<>>
  ELSE InsertByKey(SortedByKey(SubSeq(d, 1, Len(d) - 1)), d[Len(d)])

\* ------------------------------------------------------------------ regexes
\* YEAR_COL_RE.match(k): three digits and the year suffix, nothing else.
YEAR_COL_RE(k) ==
  IF Len(k) = 4 /\ AllDigits(SubSeq(k, 1, 3)) /\ k[4] = "Y"
  THEN [ok |-> TRUE, yr |-> SubSeq(k, 1, 3)]
  ELSE [ok |-> FALSE, yr |-> <<>>]

NoLegacy == [ok |-> FALSE, yr |-> <<>>, grade |-> <<>>]

\* LEGACY_EVAL_RE.match(s): three digits, \s*, a hyphen (ASCII or full-width),
\* \s*, a lazy non-empty grade, \s* to the end. The lazy group with the
\* trailing \s*$ is the rest without its trailing blanks; when only blanks
\* follow the hyphen the engine backtracks and the group is one blank.
LEGACY_EVAL_RE(s) ==
  IF Len(s) >= 3 /\ AllDigits(SubSeq(s, 1, 3))
  THEN LET r1 == LStrip(SubSeq(s, 4, Len(s)))
       IN  IF r1 # <<>> /\ Head(r1) \in {"-", "F"}
           THEN LET rest == Tail(r1)
                    r2 == LStrip(rest)
                IN  IF rest = <<>> THEN NoLegacy
                    ELSE [ok |-> TRUE, yr |-> SubSeq(s, 1, 3),
                          grade |-> IF r2 = <<>> THEN <<" ">> ELSE RStrip(r2)]
           ELSE NoLegacy
  ELSE NoLegacy

\* ------------------------------------------------------------------ time
\* An ISO date-time string: kind "absent" (missing, null or ""), "garbage"
\* (fromisoformat raises) or "iso"; secs is the wall-clock reading in seconds,
\* frac the sub-second ticks, aware/off the UTC offset in hours if one is written.
NoStamp ==
  [kind |-> "absent", sep |-> "T", secs |-> 0, frac |-> 0, aware |-> FALSE, off |-> 0]

GarbageStamp == [NoStamp EXCEPT !.kind = "garbage"]

\* now_taipei_iso(): datetime.now(+08:00).replace(microsecond=0).isoformat()
now_taipei_iso(now) ==
  [kind |-> "iso", sep |-> "T",
   secs |-> (now \div SubTicks) + TAIPEI_UTC_OFFSET_HOURS * SecondsPerHour,
   frac |-> 0, aware |-> TRUE, off |-> TAIPEI_UTC_OFFSET_HOURS]

\* The instant of a parsed date-time, in clock ticks (UTC); a naive one is
\* given tzinfo +08:00 (last_dt.replace(tzinfo=tz)).
InstantOf(ts) ==
  LET off == IF ts.aware THEN ts.off ELSE TAIPEI_UTC_OFFSET_HOURS
  IN  (ts.secs - off * SecondsPerHour) * SubTicks + ts.frac

\* timedelta(days=UPDATE_INTERVAL_DAYS) in clock ticks
IntervalTicks == UPDATE_INTERVAL_DAYS * SecondsPerDay * SubTicks

\* ------------------------------------------------------------------ documents
NoneText == [ok |-> FALSE, s |-> <<>>]
SomeText(t) == [ok |-> TRUE, s |-> t]

EmptyDoc ==
  [meta |-> [fetched_at |-> NoStamp, last_successful_update |-> NoStamp,
             api_reported_count |-> None,
             unmatched_center_ids_in_base_list |-> <<>>, unmatched_count |-> 0],
   centers |-> <<>>]

\* The content of a text file: valid (it parses as JSON, to doc), canon (it is
\* laid out as json.dumps(ensure_ascii=False, indent=2) lays it out), nl (it
\* ends with a newline).
GarbageText == [valid |-> FALSE, canon |-> FALSE, nl |-> FALSE, doc |-> EmptyDoc]

NoFile == [exists |-> FALSE, text |-> GarbageText]
FileOf(t) == [exists |-> TRUE, text |-> t]

\* json.dumps(out, ensure_ascii=False, indent=2, sort_keys=False)
json_dumps(out) == [valid |-> TRUE, canon |-> TRUE, nl |-> FALSE, doc |-> out]

\* f.write(new_json); f.write("\n")
WrittenText(new_json) == [new_json EXCEPT !.nl = TRUE]

\* load_existing_json: None without a file, the parsed document with one;
\* json.load raises on text that is not JSON.
load_existing_json(file) ==
  IF ~file.exists THEN [raised |-> FALSE, present |-> FALSE, doc |-> EmptyDoc]
  ELSE IF ~file.text.valid THEN [raised |-> TRUE, present |-> FALSE, doc |-> EmptyDoc]
  ELSE [raised |-> FALSE, present |-> TRUE, doc |-> file.text.doc]

\* (variant: the interval is compared strictly)
should_run_update_Strict(existing, forceEnv, now) ==
  IF Strip(forceEnv) = <<"1">> THEN TRUE
  ELSE IF ~existing.present THEN TRUE
  ELSE LET last == existing.doc.meta.last_successful_update
       IN  IF last.kind = "absent" THEN TRUE
           ELSE IF last.kind # "iso" THEN TRUE
           ELSE now - InstantOf(last) > IntervalTicks

\* (variant: the interval is taken in hours)
should_run_update_Hours(existing, forceEnv, now) ==
  IF Strip(forceEnv) = <<"1">> THEN TRUE
  ELSE IF ~existing.present THEN TRUE
  ELSE LET last == existing.doc.meta.last_successful_update
       IN  IF last.kind = "absent" THEN TRUE
           ELSE IF last.kind # "iso" THEN TRUE
           ELSE now - InstantOf(last) >= UPDATE_INTERVAL_DAYS * SecondsPerHour * SubTicks

\* should_run_update, with os.getenv("FORCE_UPDATE", "") and datetime.now passed in.
should_run_update(existing, forceEnv, now) ==
  IF Strip(forceEnv) = <<"1">> THEN TRUE
  ELSE IF ~existing.present THEN TRUE
  ELSE LET last == existing.doc.meta.last_successful_update
       IN  IF last.kind = "absent" THEN TRUE
           ELSE IF last.kind # "iso" THEN TRUE
           ELSE now - InstantOf(last) >= IntervalTicks

\* ------------------------------------------------------------------ API records
\* JSON null as the value of a year column
NullValue == <<"null">>

NoRec == [no |-> <<>>, name |-> <<>>, cols |-> <<>>, imp |-> [isdict |-> FALSE, date |-> <<>>]]

\* parse_eval_years: the year columns of one record, in the record's order
RECURSIVE ParseCols(_, _)
ParseCols(cols, years) ==
  IF cols = <<>> THEN years
  ELSE LET m == YEAR_COL_RE(Strip(Head(cols)[1]))
           v == Head(cols)[2]
           grade == IF v = NullValue THEN <<>> ELSE Strip(v)
       IN  ParseCols(Tail(cols), IF m.ok THEN DictSet(years, m.yr, grade) ELSE years)

parse_eval_years(rec) == ParseCols(rec.cols, <<>>)

\* the loop of main() that fills api_by_no
RECURSIVE IndexByNo(_, _)
IndexByNo(recs, idx) ==
  IF recs = <<>> THEN idx
  ELSE LET no == safe_int(Head(recs).no)
       IN  IndexByNo(Tail(recs), IF no.ok THEN DictSet(idx, no.v, Head(recs)) ELSE idx)

\* the loop of main() that fills api_by_name
RECURSIVE IndexByName(_, _)
IndexByName(recs, idx) ==
  IF recs = <<>> THEN idx
  ELSE LET name == Strip(Head(recs).name)
       IN  IndexByName(Tail(recs),
                       IF name # <<>> THEN DictSet(idx, name, Head(recs)) ELSE idx)

\* (variant: the name index is asked first)
LookupRec_NameFirst(by_no, by_name, cid, name) ==
  IF DictHas(by_name, name) THEN [found |-> TRUE, rec |-> DictGet(by_name, name)]
  ELSE IF DictHas(by_no, cid) THEN [found |-> TRUE, rec |-> DictGet(by_no, cid)]
  ELSE [found |-> FALSE, rec |-> NoRec]

\* rec = api_by_no.get(cid) or api_by_name.get(name)
LookupRec(by_no, by_name, cid, name) ==
  IF DictHas(by_no, cid) THEN [found |-> TRUE, rec |-> DictGet(by_no, cid)]
  ELSE IF DictHas(by_name, name) THEN [found |-> TRUE, rec |-> DictGet(by_name, name)]
  ELSE [found |-> FALSE, rec |-> NoRec]

\* ------------------------------------------------------------------ merge
\* (variant: every run starts from an empty history)
SeedHistory_Empty(existing, cid) == <<>>

\* The history of cid in the previous document: the first center whose id
\* parses to cid (the loop breaks there).
SeedHistory(existing, cid) ==
  IF ~existing.present THEN <<>>
  ELSE LET cs == existing.doc.centers
           hits == {i \in 1..Len(cs) : safe_int(IntToStr(cs[i].id)) = Some(cid)}
       IN  IF hits = {} THEN <<>>
           ELSE DictUpdate(<<>>,
                  cs[CHOOSE i \in hits : \A j \in hits : i <= j].evaluation_by_year)

\* the legacy field merged into eval_by_year
MergeLegacy(eval_by_year, c) ==
  LET m == LEGACY_EVAL_RE(Strip(c.legacy))
  IN  IF m.ok THEN DictSet(eval_by_year, m.yr, Strip(m.grade)) ELSE eval_by_year

\* (variant: the API fills only the years nothing else supplied)
MergeApi_OlderWins(eval_by_year, hit) ==
  IF hit.found THEN DictUpdate(parse_eval_years(hit.rec), eval_by_year) ELSE eval_by_year

\* the API record merged into eval_by_year
MergeApi(eval_by_year, hit) ==
  IF hit.found THEN DictUpdate(eval_by_year, parse_eval_years(hit.rec)) ELSE eval_by_year

\* the body of the loop over the roster for one row with a parsed identifier
\* whose lookup gave hit: the center appended to out_centers
CenterOf(c, cid, existing, hit) ==
  LET eval_by_year == MergeApi(MergeLegacy(SeedHistory(existing, cid), c), hit)
  IN  [id |-> cid, name |-> Strip(c.name),
       evaluation_by_year |-> SortedByKey(eval_by_year),
       source_importdate |->
         IF hit.found /\ hit.rec.imp.isdict /\ hit.rec.imp.date # <<>>
         THEN SomeText(hit.rec.imp.date) ELSE NoneText]

\* The loop over the roster: out_centers and unmatched. Rows whose identifier
\* does not parse are skipped (continue); every other row appends one center,
\* and its identifier to unmatched when the lookup finds no record.
MergeRows(rows, existing, by_no, by_name) ==
  LET Hit(c) == LookupRec(by_no, by_name, safe_int(c.no).v, Strip(c.name))
      kept == SelectSeq(rows, LAMBDA c : safe_int(c.no).ok)
      missed == SelectSeq(kept, LAMBDA c : ~Hit(c).found)
  IN  [out_centers |->
         [i \in 1..Len(kept) |->
            CenterOf(kept[i], safe_int(kept[i].no).v, existing, Hit(kept[i]))],
       unmatched |-> [i \in 1..Len(missed) |-> safe_int(missed[i].no).v]]

\* (variant: unmatched_count counts the list that is kept)
BuildOut_CountOfList(existing, centers, records, api_meta, now) ==
  LET by_no == IndexByNo(records, <<>>)
      by_name == IndexByName(records, <<>>)
      m == MergeRows(centers, existing, by_no, by_name)
      kept == SubSeq(m.unmatched, 1, Min(UNMATCHED_LIST_CAP, Len(m.unmatched)))
  IN  [meta |-> [fetched_at |-> now_taipei_iso(now),
                 last_successful_update |-> now_taipei_iso(now),
                 api_reported_count |-> api_meta.reported_count,
                 unmatched_center_ids_in_base_list |-> kept,
                 unmatched_count |-> Len(kept)],
       centers |-> m.out_centers]

\* the document main() assembles from the inputs of one run
BuildOut(existing, centers, records, api_meta, now) ==
  LET by_no == IndexByNo(records, <<>>)
      by_name == IndexByName(records, <<>>)
      m == MergeRows(centers, existing, by_no, by_name)
  IN  [meta |-> [fetched_at |-> now_taipei_iso(now),
                 last_successful_update |-> now_taipei_iso(now),
                 api_reported_count |-> api_meta.reported_count,
                 unmatched_center_ids_in_base_list |->
                   SubSeq(m.unmatched, 1, Min(UNMATCHED_LIST_CAP, Len(m.unmatched))),
                 unmatched_count |-> Len(m.unmatched)],
       centers |-> m.out_centers]

\* ------------------------------------------------------------------ state
VARIABLES
  clock,          \* datetime.now(), in ticks
  disk,           \* data.json
  pc,             \* "idle", "request", "response" (fetch_all_records), "merge"
  runs,           \* invocations so far
  forceEnv,       \* FORCE_UPDATE of the current invocation
  rosterExists,   \* os.path.exists(CENTERS_CSV)
  centers,        \* load_csv(CENTERS_CSV)
  server,         \* the remote data set: data, the count it reports, failing pages
  existing,       \* main(): existing
  offset,         \* fetch_all_records: offset
  out,            \* fetch_all_records: out
  meta,           \* fetch_all_records: meta
  exit,           \* how the last invocation ended
  diskBefore,     \* history: data.json when the current invocation started
  gateNow,        \* history: the clock reading should_run_update took
  repeat,         \* history: this invocation repeats the last one (same inputs,
                  \* forced, no time passed since the last one wrote its stamps)
  lastWriteAt,    \* history: the clock reading when a run last wrote data.json
  failedSince,    \* history: an invocation since then ended with a non-zero status
  writeGap        \* history: at the last write, the ticks since the write before
                  \* it and whether an invocation in between ended non-zero

vars ==
  <<clock, disk, pc, runs, forceEnv, rosterExists, centers, server, existing,
    offset, out, meta, exit, diskBefore, gateNow, repeat, lastWriteAt, failedSince,
    writeGap>>

NoGap == [ok |-> FALSE, ticks |-> 0, failed |-> FALSE]

NoMeta == [set |-> FALSE, reported_count |-> None]

NoExisting == [raised |-> FALSE, present |-> FALSE, doc |-> EmptyDoc]

NoServer == [data |-> <<>>, count |-> None, fails |-> {}]

\* Exit status of the process for each way main() ends: return 0, return 2,
\* or an uncaught exception (the interpreter prints the traceback and exits 1).
ExitCode(e) ==
  CASE e \in {"skip", "nochange", "updated"} -> 0
    [] e = "missing_roster" -> 2
    [] e \in {"json_error", "http_error"} -> 1
    [] OTHER -> 0 - 1

Completed(e) == e \in {"nochange", "updated"}

InitWith(priors) ==
  /\ clock = 0
  /\ disk \in priors
  /\ pc = "idle"
  /\ runs = 0
  /\ forceEnv = <<>>
  /\ rosterExists = TRUE
  /\ centers = <<>>
  /\ server = NoServer
  /\ existing = NoExisting
  /\ offset = 0
  /\ out = <<>>
  /\ meta = NoMeta
  /\ exit = "none"
  /\ diskBefore = disk
  /\ gateNow = 0
  /\ repeat = FALSE
  /\ lastWriteAt = None
  /\ failedSince = FALSE
  /\ writeGap = NoGap

\* how main() ends before fetch_all_records, or "running" when it goes on
EarlyExit(loaded, f, now, hasRoster) ==
  IF loaded.raised THEN "json_error"
  ELSE IF ~should_run_update(loaded, f, now) THEN "skip"
  ELSE IF ~hasRoster THEN "missing_roster"
  ELSE "running"

\* main() up to the call of fetch_all_records, started d ticks after the last step
\* with FORCE_UPDATE = f, the roster file (present iff hasRoster) holding rows
\* and the remote end behaving as srv.
Invoke(maxRuns, d, f, hasRoster, rows, srv) ==
  LET loaded == load_existing_json(disk)
      now == clock + d
      how == EarlyExit(loaded, f, now, hasRoster)
  IN  /\ pc = "idle"
      /\ runs < maxRuns
      /\ runs' = runs + 1
      /\ clock' = now
      /\ forceEnv' = f
      /\ rosterExists' = hasRoster
      /\ centers' = IF hasRoster THEN rows ELSE <<>>
      /\ server' = srv
      /\ existing' = loaded
      /\ offset' = 0
      /\ out' = <<>>
      /\ meta' = NoMeta
      /\ exit' = how
      /\ pc' = IF how = "running" THEN "request" ELSE "idle"
      /\ diskBefore' = disk
      /\ gateNow' = now
      /\ repeat' = /\ Completed(exit)
                   /\ Strip(f) = <<"1">>
                   /\ d = 0
                   /\ rosterExists /\ hasRoster /\ rows = centers
                   /\ srv = server
      /\ failedSince' = (failedSince \/ (how # "running" /\ ExitCode(how) # 0))
      /\ UNCHANGED <<disk, lastWriteAt, writeGap>>

\* session.get(url, timeout=60) for the page at offset, answered lat ticks later
Request(lat) ==
  /\ pc = "request"
  /\ pc' = "response"
  /\ clock' = clock + lat
  /\ repeat' = (repeat /\ lat = 0)
  /\ UNCHANGED <<disk, runs, forceEnv, rosterExists, centers, server, existing,
                 offset, out, meta, exit, diskBefore, gateNow, lastWriteAt, failedSince,
                 writeGap>>

\* result["results"] of the page at off
PageAt(srv, off) == SubSeq(srv.data, off + 1, Min(off + PageLimit, Len(srv.data)))

\* (variant: a page that failed is taken for an empty one)
Response_IgnoreStatus ==
  /\ pc = "response"
  /\ LET records == IF (offset \div PageLimit) \in server.fails THEN <<>>
                    ELSE PageAt(server, offset)
         grown == out \o records
         count == IF server.count.ok THEN server.count.v ELSE Len(grown)
     IN  /\ out' = grown
         /\ meta' = IF meta.set THEN meta
                    ELSE [set |-> TRUE, reported_count |-> server.count]
         /\ IF Len(grown) >= count
            THEN pc' = "merge" /\ UNCHANGED offset
            ELSE /\ pc' = "request"
                 /\ offset' = Min(offset + PageLimit, OffsetCapPages * PageLimit)
  /\ UNCHANGED <<clock, disk, runs, forceEnv, rosterExists, centers, server,
                 existing, diskBefore, gateNow, repeat, lastWriteAt, writeGap,
                 exit, failedSince>>

\* The rest of one iteration of the loop of fetch_all_records:
\* raise_for_status, the first page's meta, out.extend, the exit test.
Response ==
  /\ pc = "response"
  /\ IF (offset \div PageLimit) \in server.fails
     THEN /\ pc' = "idle"
          /\ exit' = "http_error"
          /\ failedSince' = TRUE
          /\ UNCHANGED <<out, meta, offset>>
     ELSE LET records == PageAt(server, offset)
              grown == out \o records
              count == IF server.count.ok THEN server.count.v ELSE Len(grown)
          IN  /\ out' = grown
              /\ meta' = IF meta.set THEN meta
                         ELSE [set |-> TRUE, reported_count |-> server.count]
              /\ IF Len(grown) >= count
                 THEN pc' = "merge" /\ UNCHANGED offset
                 ELSE /\ pc' = "request"
                      /\ offset' = Min(offset + PageLimit, OffsetCapPages * PageLimit)
              /\ UNCHANGED <<exit, failedSince>>
  /\ UNCHANGED <<clock, disk, runs, forceEnv, rosterExists, centers, server,
                 existing, diskBefore, gateNow, repeat, lastWriteAt, writeGap>>

\* main() after fetch_all_records returned: the indexes, the merge loop, the
\* meta block, and the write when the serialized document differs from the file.
WriteSnapshot ==
  LET new_json == json_dumps(BuildOut(existing, centers, out, meta, clock))
  IN  /\ pc = "merge"
      /\ pc' = "idle"
      /\ IF disk.exists /\ disk.text = new_json
         THEN /\ exit' = "nochange"
              /\ UNCHANGED <<disk, lastWriteAt, failedSince, writeGap>>
         ELSE /\ exit' = "updated"
              /\ disk' = FileOf(WrittenText(new_json))
              /\ lastWriteAt' = Some(clock)
              /\ failedSince' = FALSE
              /\ writeGap' = [ok |-> lastWriteAt.ok, ticks |-> clock - lastWriteAt.v,
                              failed |-> failedSince]
      /\ UNCHANGED <<clock, runs, forceEnv, rosterExists, centers, server, existing,
                     offset, out, meta, diskBefore, gateNow, repeat>>

\* ------------------------------------------------------------------ inputs
Row(no, name, legacy) == [no |-> no, name |-> name, legacy |-> legacy]

Rec(no, name, cols, date) ==
  [no |-> no, name |-> name, cols |-> cols,
   imp |-> [isdict |-> date # <<>>, date |-> date]]

Y110 == <<"1", "1", "0">>
Y111 == <<"1", "1", "1">>
Y112 == <<"1", "1", "2">>
Y113 == <<"1", "1", "3">>

Col(yr, v) == <<yr \o <<"Y">>, v>>

\* Roster files. Identifiers are unique within a roster (the roster's contract);
\* they come with and without blanks, and some do not parse.
RosterLegacy == <<Row(<<" ", "5", " ">>, <<"a", " ">>, <<"1", "1", "1", "-", "A">>)>>

RosterWideHyphen ==
  <<Row(<<"5">>, <<"a">>, <<"1", "1", "2", " ", "F", " ", "B", " ">>)>>

RosterMixed ==
  <<Row(<<"x">>, <<"a">>, <<"1", "1", "1", "-", "A">>),
    Row(<<"6">>, <<"a">>, <<"1", "1", "-", "A">>),
    Row(<<"5">>, <<"b">>, <<"1", "1", "1", "-", "A">>)>>

RosterNoMatch ==
  <<Row(<<"6">>, <<>>, <<"1", "1", "1", "-">>),
    Row(<<"5">>, <<"x">>, <<>>)>>

Rosters == {RosterLegacy, RosterWideHyphen, RosterMixed, RosterNoMatch}

\* one row that does not parse, then identifiers 5 .. LongRosterLen + 4 without names
RosterLong ==
  <<Row(<<"x">>, <<>>, <<>>)>>
    \o [i \in 1..LongRosterLen |-> Row(IntToStr(i + 4), <<>>, <<>>)]

\* Remote data sets.
DataById == <<Rec(<<"5">>, <<"b">>, <<Col(Y111, <<"C">>)>>, <<"1">>)>>

DataIdBeatsName ==
  <<Rec(<<"7">>, <<"a">>, <<Col(Y112, NullValue)>>, <<"1">>),
    Rec(<<" ", "5">>, <<"b">>,
        <<Col(Y111, <<"C">>), <<<<" ">> \o Y113 \o <<"Y", " ">>, <<" ", "A", " ">>>>,
          <<<<"x">>, <<"B">>>>>>,
        <<"2">>)>>

DataByName == <<Rec(<<"7">>, <<" ", "a">>, <<Col(Y110, <<"A">>)>>, <<>>)>>

DataTwiceSameId ==
  <<Rec(<<"5">>, <<"x">>, <<Col(Y111, <<"A">>)>>, <<"1">>),
    Rec(<<"5">>, <<"x">>, <<Col(Y112, <<"B">>)>>, <<"2">>)>>

DataTwiceSameName ==
  <<Rec(<<>>, <<"a">>, <<Col(Y111, <<"B">>)>>, <<"1">>),
    Rec(<<"x">>, <<"a", " ">>, <<Col(Y111, <<"C">>), Col(Y110, <<"A">>)>>, <<"2">>)>>

\* more records than one page holds: identifiers 5 .. PageLimit + 5
DataTwoPages ==
  [i \in 1..(PageLimit + 1) |->
     Rec(IntToStr(i + 4), <<"b">>, <<Col(Y112, <<"A">>)>>, <<"1">>)]

DataSets ==
  {DataById, DataIdBeatsName, DataByName, DataTwiceSameId, DataTwiceSameName,
   DataTwoPages}

\* a server that answers every page and reports its true count
Healthy(data) == [data |-> data, count |-> Some(Len(data)), fails |-> {}]

\* data.json as an earlier run at clock reading t wrote it
WrittenAt(prior, rows, data, t) ==
  FileOf(WrittenText(json_dumps(
    BuildOut(prior, rows, data, [set |-> TRUE, reported_count |-> Some(Len(data))], t))))

CenterOnFile(id, name, years) ==
  [id |-> id, name |-> name, evaluation_by_year |-> years, source_importdate |-> NoneText]

\* the history of the specification's example: year 111, grade B, identifier 5
FileWithHistory ==
  LET f == WrittenAt(NoExisting, RosterLegacy, <<>>, 0)
  IN  [f EXCEPT !.text.doc.centers = <<CenterOnFile(5, <<"a">>, <<<<Y111, <<"B">>>>>>)>>]

\* a file edited by hand: other layout, history out of order, a center not in any roster
FileByHand ==
  [FileWithHistory EXCEPT
     !.text.canon = FALSE,
     !.text.doc.centers =
        <<CenterOnFile(9, <<"x">>, <<<<Y112, <<"A">>>>>>),
          CenterOnFile(5, <<"a">>, <<<<Y112, <<"A">>>>, <<Y110, <<"C">>>>>>),
          CenterOnFile(6, <<"b">>, <<<<Y111, <<"B">>>>>>)>>]

\* the document of a run over RosterLegacy and DataById at clock 0, saved without
\* the final newline
FileNoNewline ==
  LET f == WrittenAt(NoExisting, RosterLegacy, DataById, 0)
  IN  [f EXCEPT !.text.nl = FALSE]

Priors == {NoFile, FileWithHistory, FileByHand, FileNoNewline}

\* ------------------------------------------------------------------ the reconciler
\* Forced runs over every roster and data set, back to back or a second apart.
InvokeMain ==
  \E d \in {0, SubTicks}, rows \in Rosters, data \in DataSets :
    Invoke(MaxRuns, d, <<"1">>, TRUE, rows, Healthy(data))

RequestNow == Request(0)

Init == InitWith(Priors)

Next == InvokeMain \/ RequestNow \/ Response \/ WriteSnapshot

Spec == Init /\ [][Next]_vars

\* ------------------------------------------------------------------ unmatched rows
\* The long roster against data sets that match none, one and several rows.
InvokeLong ==
  \E rows \in {RosterLong, RosterMixed}, data \in {<<>>, DataById, DataTwoPages} :
    Invoke(MaxRuns, 0, <<"1">>, TRUE, rows, Healthy(data))

SpecUnmatched ==
  InitWith({NoFile, FileWithHistory})
    /\ [][InvokeLong \/ RequestNow \/ Response \/ WriteSnapshot]_vars

\* ------------------------------------------------------------------ the staleness gate
\* data.json with its last_successful_update replaced
WithStamp(file, ts) == [file EXCEPT !.text.doc.meta.last_successful_update = ts]

StampAtZero == now_taipei_iso(0)

\* Prior files for the gate: no file, text that is not JSON, and documents whose
\* stamp is written with +08:00, without a zone and with a blank for the "T",
\* in UTC, with a fraction of a second, unparseable, or missing. All parseable
\* stamps but the fractional one denote clock reading 0.
GatePriors ==
  {NoFile,
   FileOf(GarbageText),
   FileWithHistory,
   WithStamp(FileWithHistory, [StampAtZero EXCEPT !.aware = FALSE, !.sep = " "]),
   WithStamp(FileWithHistory, [StampAtZero EXCEPT !.off = 0, !.secs = 0]),
   WithStamp(FileWithHistory, [StampAtZero EXCEPT !.frac = 1]),
   WithStamp(FileWithHistory, GarbageStamp),
   WithStamp(FileWithHistory, NoStamp)}

\* a tick, one hour short of the interval, one tick short of it, the interval
GateAdvances ==
  LET days == UPDATE_INTERVAL_DAYS * SecondsPerDay * SubTicks
  IN  {1, days - SecondsPerHour * SubTicks, days - 1, days}

\* a server whose first page fails
Failing(data) == [data |-> data, count |-> Some(Len(data)), fails |-> {0}]

\* Unforced runs: the roster present or missing, the server healthy or failing.
InvokeDaily ==
  \E d \in GateAdvances, hasRoster \in BOOLEAN, srv \in {Healthy(DataById), Failing(DataById)} :
    Invoke(MaxGateRuns, d, <<>>, hasRoster, RosterLegacy, srv)

RequestSlow == \E lat \in {0, 1} : Request(lat)

SpecGate ==
  InitWith(GatePriors) /\ [][InvokeDaily \/ RequestSlow \/ Response \/ WriteSnapshot]_vars

\* ------------------------------------------------------------------ the remote loader
\* a server that reports more records than it delivers
OverReporting(data) == [data |-> data, count |-> Some(Len(data) + 1), fails |-> {}]

\* a server that reports fewer
UnderReporting(data) == [data |-> data, count |-> Some(Len(data) - 1), fails |-> {}]

\* a server whose answers carry no count
NoCount(data) == [data |-> data, count |-> None, fails |-> {}]

\* a healthy server but for the page with index p
FailingAt(data, p) == [data |-> data, count |-> Some(Len(data)), fails |-> {p}]

Servers ==
  {Healthy(DataById), Healthy(DataTwoPages), OverReporting(DataById),
   OverReporting(DataTwoPages), UnderReporting(DataTwoPages), NoCount(DataTwoPages),
   FailingAt(DataTwoPages, 0), FailingAt(DataTwoPages, 1)}

InvokeFetch ==
  \E srv \in Servers : Invoke(MaxRuns, 0, <<"1">>, TRUE, RosterMixed, srv)

\* A request that is sent is answered (or times out and raises) and the
\* answer is processed: the steps of the loader are eventually taken. Nothing
\* obliges the scheduler to start another run.
SpecFetch ==
  /\ InitWith({NoFile, FileWithHistory})
  /\ [][InvokeFetch \/ RequestNow \/ Response \/ WriteSnapshot]_vars
  /\ WF_vars(RequestNow) /\ WF_vars(Response)

\* ------------------------------------------------------------------ properties
\* The statements below are read off the state after an invocation: the
\* inputs it had (centers, server, out, existing), the file before it
\* (diskBefore) and after it (disk).

Done == pc = "idle" /\ Completed(exit)

HasPrev == diskBefore.exists /\ diskBefore.text.valid

NewDoc == disk.text.doc

Keys(d) == {d[i][1] : i \in 1..Len(d)}

ValueOf(d, k) == (CHOOSE kv \in {d[i] : i \in 1..Len(d)} : kv[1] = k)[2]

First(S) == CHOOSE i \in S : \A j \in S : i <= j

Last(S) == CHOOSE i \in S : \A j \in S : j <= i

\* the roster rows whose identifier parses, in roster order
ParsedRows == SelectSeq(centers, LAMBDA c : safe_int(c.no).ok)

RowId(c) == safe_int(c.no).v

\* the fetched records carrying the row's identifier, and those carrying its name
SameId(c) == {i \in 1..Len(out) : safe_int(out[i].no) = Some(RowId(c))}

SameName(c) ==
  {i \in 1..Len(out) : Strip(c.name) # <<>> /\ Strip(out[i].name) = Strip(c.name)}

\* the record a row is to be merged with: by identifier first, then by name
\* (of several records under one key the index keeps the last)
ExpectedRec(c) ==
  IF SameId(c) # {} THEN [found |-> TRUE, rec |-> out[Last(SameId(c))]]
  ELSE IF SameName(c) # {} THEN [found |-> TRUE, rec |-> out[Last(SameName(c))]]
  ELSE [found |-> FALSE, rec |-> NoRec]

ApiYears(c) == IF ExpectedRec(c).found THEN parse_eval_years(ExpectedRec(c).rec) ELSE <<>>

LegacyOf(c) == LEGACY_EVAL_RE(Strip(c.legacy))

\* the years stored for identifier cid in the previous document
PrevHistory(cid) ==
  LET cs == diskBefore.text.doc.centers
      same == {i \in 1..Len(cs) : cs[i].id = cid}
  IN  IF HasPrev /\ same # {} THEN cs[First(same)].evaluation_by_year ELSE <<>>

\* C1: a forced run that repeats the last completed run (same roster, same API
\* answers, the clock not advanced) serializes to exactly the bytes on disk,
\* takes the "No change" branch and does not rewrite data.json.
C1_Idempotent ==
  (Done /\ repeat) =>
    /\ json_dumps(BuildOut(existing, centers, out, meta, clock)) = diskBefore.text
    /\ exit = "nochange"
    /\ disk = diskBefore /\ lastWriteAt # Some(clock)

\* C2: after a completed run, for every identifier of the roster, every year
\* of that center in the previous document is still there, with the same grade
\* unless the row's legacy field or its matched API record supplies that year.
C2_MonotonicHistory ==
  (Done /\ HasPrev) =>
    \A j \in 1..Len(ParsedRows) :
      LET c == ParsedRows[j]
          H == PrevHistory(RowId(c))
          now == {n \in 1..Len(NewDoc.centers) : NewDoc.centers[n].id = RowId(c)}
      IN  /\ now # {}
          /\ \A n \in now : \A y \in Keys(H) :
               LET E == NewDoc.centers[n].evaluation_by_year
               IN  /\ y \in Keys(E)
                   /\ \/ ValueOf(E, y) = ValueOf(H, y)
                      \/ LegacyOf(c).ok /\ LegacyOf(c).yr = y
                      \/ y \in Keys(ApiYears(c))

\* the example of the specification: 111 -> B stored for identifier 5, a run
\* whose row 5 has no legacy field and no remote match, 111 -> B kept
C2_Witness ==
  /\ Done /\ HasPrev
  /\ <<Y111, <<"B">>>> \in {PrevHistory(5)[i] : i \in 1..Len(PrevHistory(5))}
  /\ \E j \in 1..Len(ParsedRows) :
       /\ RowId(ParsedRows[j]) = 5
       /\ ParsedRows[j].legacy = <<>>
       /\ ~ExpectedRec(ParsedRows[j]).found
       /\ <<Y111, <<"B">>>> \in
            {NewDoc.centers[j].evaluation_by_year[i] :
               i \in 1..Len(NewDoc.centers[j].evaluation_by_year)}

\* C3: for every emitted center and every year y, the grade is the matched API
\* record's if it supplies y, else the legacy field's if it parses with year y,
\* else the previous document's for the same identifier; y is absent only when
\* none of the three supplies it.
C3_MergePrecedence ==
  Done =>
    /\ Len(NewDoc.centers) = Len(ParsedRows)
    /\ \A j \in 1..Len(ParsedRows) :
         LET c == ParsedRows[j]
             E == NewDoc.centers[j].evaluation_by_year
             A == ApiYears(c)
             L == LegacyOf(c)
             H == PrevHistory(RowId(c))
         IN  \A y \in Keys(E) \cup Keys(A) \cup Keys(H) \cup {L.yr} :
               IF y \in Keys(A) THEN y \in Keys(E) /\ ValueOf(E, y) = ValueOf(A, y)
               ELSE IF L.ok /\ L.yr = y
                 THEN y \in Keys(E) /\ ValueOf(E, y) = Strip(L.grade)
               ELSE IF y \in Keys(H) THEN y \in Keys(E) /\ ValueOf(E, y) = ValueOf(H, y)
               ELSE y \notin Keys(E)

\* the example of the specification: history 111 -> B, legacy 111-A, remote 111 -> C
C3_Witness ==
  /\ Done /\ HasPrev
  /\ Len(ParsedRows) = 1 /\ RowId(ParsedRows[1]) = 5
  /\ Y111 \in Keys(PrevHistory(5)) /\ ValueOf(PrevHistory(5), Y111) = <<"B">>
  /\ LegacyOf(ParsedRows[1]).ok /\ LegacyOf(ParsedRows[1]).yr = Y111
  /\ LegacyOf(ParsedRows[1]).grade = <<"A">>
  /\ Y111 \in Keys(ApiYears(ParsedRows[1]))
  /\ ValueOf(NewDoc.centers[1].evaluation_by_year, Y111) = <<"C">>

ImportDateOf(rec) ==
  IF rec.imp.isdict /\ rec.imp.date # <<>> THEN SomeText(rec.imp.date) ELSE NoneText

\* C9: every emitted center is merged with the record under its identifier
\* when there is one, whatever record carries its name; with the record under
\* its name only when no record has its identifier; and it is listed as
\* unmatched exactly when neither exists.
C9_TwoStageLookup ==
  Done =>
    \A j \in 1..Len(ParsedRows) :
      LET c == ParsedRows[j]
          ctr == NewDoc.centers[j]
          hit == ExpectedRec(c)
          listed == \E u \in 1..Len(NewDoc.meta.unmatched_center_ids_in_base_list) :
                      NewDoc.meta.unmatched_center_ids_in_base_list[u] = RowId(c)
      IN  /\ hit.found =>
               /\ ctr.source_importdate = ImportDateOf(hit.rec)
               /\ \A y \in Keys(parse_eval_years(hit.rec)) :
                    /\ y \in Keys(ctr.evaluation_by_year)
                    /\ ValueOf(ctr.evaluation_by_year, y)
                         = ValueOf(parse_eval_years(hit.rec), y)
          /\ ~hit.found => ctr.source_importdate = NoneText
          /\ listed <=> ~hit.found

\* a row whose identifier is on one record and whose name is on another:
\* the center carries the import date of the record with its identifier
C9_Witness ==
  /\ Done
  /\ \E j \in 1..Len(ParsedRows) :
       LET c == ParsedRows[j]
       IN  /\ SameId(c) # {} /\ SameName(c) # {}
           /\ out[Last(SameId(c))].imp.date # out[Last(SameName(c))].imp.date
           /\ NewDoc.centers[j].source_importdate
                = SomeText(out[Last(SameId(c))].imp.date)

\* the rows that no fetched record matches, by identifier or by name
UnmatchedRows ==
  SelectSeq(ParsedRows, LAMBDA c : SameId(c) = {} /\ SameName(c) = {})

\* C7: after a completed run unmatched_count is the number of emitted centers
\* without a remote match, the stored list is the first min(50, count) of
\* their identifiers in roster order, and a row whose identifier does not
\* parse is neither emitted nor counted.
C7_UnmatchedAccounting ==
  Done =>
    LET U == UnmatchedRows
        kept == NewDoc.meta.unmatched_center_ids_in_base_list
        n == IF Len(U) < 50 THEN Len(U) ELSE 50
    IN  /\ NewDoc.meta.unmatched_count = Len(U)
        /\ Len(kept) = n
        /\ \A i \in 1..n : kept[i] = RowId(U[i])
        /\ Len(NewDoc.centers) = Len(ParsedRows)
        /\ \A j \in 1..Len(ParsedRows) : NewDoc.centers[j].id = RowId(ParsedRows[j])
        /\ Len(U) <= Len(ParsedRows)

\* more than 50 rows unmatched, 50 of them listed, beside a row with an
\* unparseable identifier that does not show up in the output
C7_Witness ==
  /\ Done
  /\ NewDoc.meta.unmatched_count > 50
  /\ Len(NewDoc.meta.unmatched_center_ids_in_base_list) = 50
  /\ Len(ParsedRows) < Len(centers)
  /\ Len(NewDoc.centers) = Len(centers) - 1

\* the stored time of the last successful update, as an instant in clock
\* ticks: a time without a zone is read as UTC+8
StoredInstant ==
  LET ts == existing.doc.meta.last_successful_update
      zone == IF ts.aware THEN ts.off ELSE 8
  IN  (ts.secs - zone * 3600) * SubTicks + ts.frac

Unforced == Strip(forceEnv) # <<"1">>

GateApplies ==
  /\ runs > 0 /\ Unforced
  /\ existing.present
  /\ existing.doc.meta.last_successful_update.kind = "iso"

\* C4: a run that finds a data.json that is not valid JSON, or one whose
\* last_successful_update does not parse, is not skipped and does not fail on
\* the file: it goes on, and what it writes is built without prior history.
C4_FailOpen ==
  (/\ runs > 0 /\ pc = "idle" /\ diskBefore.exists
   /\ \/ ~diskBefore.text.valid
      \/ diskBefore.text.doc.meta.last_successful_update.kind = "garbage")
    => /\ exit \notin {"skip", "json_error"}
       /\ Done => NewDoc = BuildOut(NoExisting, centers, out, meta, clock)

\* C5: an unforced run with a parseable stored time is let through exactly
\* when the current time minus the stored time is at least ten days.
C5_GateBoundary ==
  GateApplies =>
    ((exit # "skip") <=> (gateNow - StoredInstant >= 10 * 24 * 3600 * SubTicks))

\* a stored time without a zone, exactly ten days old: the run is let through
C5_Witness ==
  /\ GateApplies
  /\ ~existing.doc.meta.last_successful_update.aware
  /\ gateNow - StoredInstant = 10 * 24 * 3600 * SubTicks
  /\ exit # "skip"

\* C6 as stated: two successive writes of unforced runs are at least ten days
\* apart, and every invocation between them ended with status 0.
C6_RateLimit ==
  writeGap.ok => (writeGap.ticks >= 10 * 24 * 3600 * SubTicks /\ ~writeGap.failed)

\* C6, amended: a write by an unforced run records a last_successful_update at
\* least ten days after the whole-second one it found; an invocation that
\* comes less than ten days after the stored time ends with status 0; and only
\* a run that ends "updated" leaves a file different from the one it found.
C6_RateLimitRecorded ==
  /\ (/\ GateApplies /\ Done /\ exit = "updated"
      /\ existing.doc.meta.last_successful_update.frac = 0)
       => InstantOf(NewDoc.meta.last_successful_update) - StoredInstant
            >= 10 * 24 * 3600 * SubTicks
  /\ (GateApplies /\ gateNow - StoredInstant < 10 * 24 * 3600 * SubTicks)
       => (pc = "idle" /\ ExitCode(exit) = 0)
  /\ (runs > 0 /\ exit # "updated") => disk = diskBefore

\* a second write, after an invocation in between that ended non-zero
C6_Witness ==
  /\ pc = "idle" /\ exit = "updated" /\ Unforced
  /\ writeGap.ok /\ writeGap.failed
  /\ lastWriteAt = Some(clock)

\* the pages whose responses the current run has processed
RespondedPages ==
  IF pc \in {"request", "response"} THEN 0..((offset \div PageLimit) - 1)
  ELSE 0..(offset \div PageLimit)

\* C8: while a run is fetching and after it completed, no page it was answered
\* had failed and, until it completes, data.json is as it was found; a run a
\* failed page ends has a non-zero status and has left data.json untouched.
C8_NoPartialOutput ==
  /\ exit \in {"running", "nochange", "updated"} => RespondedPages \cap server.fails = {}
  /\ exit = "running" => disk = diskBefore
  /\ exit = "http_error" => (pc = "idle" /\ ExitCode(exit) # 0 /\ disk = diskBefore)

\* the second page fails, over an existing data.json
C8_Witness ==
  /\ exit = "http_error" /\ pc = "idle"
  /\ offset > 0 /\ out # <<>>
  /\ diskBefore.exists /\ disk = diskBefore

\* C10: whatever the successful responses, the paging loop comes to an end,
\* and when it ends with the records it has at least as many as the reported count.
C10_PagingTerminates ==
  /\ (pc = "request") ~> (pc \in {"merge", "idle"})
  /\ [](pc = "merge" /\ server.count.ok => Len(out) >= server.count.v)
====
